---- MODULE Spec2Model ----
(***************************************************************************)
(* ML Platform Health Agent: one run of run_health_check (main.py), i.e.   *)
(* collect_all (aggregator.py) followed by analyse (agent.py) and the      *)
(* hand-over to rendering/delivery.                                        *)
(*                                                                         *)
(* Python dicts are modelled two ways.  The `results` dict of collect_all, *)
(* whose insertion order is read by the status-merge loop, is a sequence   *)
(* of [k, v] pairs in insertion order.  Every other dict is only ever read *)
(* by key and is a TLA+ function from its keys.                            *)
(***************************************************************************)
EXTENDS Integers, Sequences, FiniteSets, TLC

(***************************************************************************)
(* Bounds of the model.                                                    *)
(***************************************************************************)
\* Longest run of whitespace the service puts around a piece of its reply.
MaxPad == 1

\* Number of completed jobs the azure_ml collector reports (its list is
\* longer than the engine's cap, so that trimming has something to cut).
NumCompleted == 6

(***************************************************************************)
(* Constants of the program.                                               *)
(***************************************************************************)
\* aggregator.py:25-30, the keys of `collectors` in submission order.
SourceOrder == <<"azure_ml", "azure_monitor", "jira", "shell">>

SourceIds == {SourceOrder[i] : i \in 1..Len(SourceOrder)}

\* aggregator.py:16
STATUS_RANK == [healthy |-> 0, warning |-> 1, critical |-> 2, error |-> 2]

\* The four statuses of a SourceResult / Report.
Statuses == {"healthy", "warning", "critical", "error"}

\* agent.py:142, completed_jobs[:5]
TrimCap == 5

\* Messages carried by the exceptions of the service call (str(e)).
Msgs == {"timed out", "access denied"}

(***************************************************************************)
(* dict helpers                                                            *)
(***************************************************************************)
\* d.get(k, default) on a dict read by key.
Get(d, k, default) == IF k \in DOMAIN d THEN d[k] ELSE default

\* d[k] = v on a dict read by key.
Put(d, k, v) == [x \in (DOMAIN d) \cup {k} |-> IF x = k THEN v ELSE d[x]]

EmptyDict == [x \in {} |-> 0]

\* Python's None where the code compares it with a string.
PyNone == "<None>"

\* Keys of an insertion-ordered dict.
OKeys(od) == {od[i].k : i \in 1..Len(od)}

\* od[k] = v on an insertion-ordered dict: an existing key keeps its place,
\* a new key goes last.
OPut(od, k, v) ==
    IF k \in OKeys(od)
    THEN [i \in 1..Len(od) |-> IF od[i].k = k THEN [k |-> k, v |-> v] ELSE od[i]]
    ELSE Append(od, [k |-> k, v |-> v])

\* od.values(), in insertion order.
OValues(od) == [i \in 1..Len(od) |-> od[i].v]

\* The same dict read by key.
ODict(od) == [key \in OKeys(od) |-> od[CHOOSE i \in 1..Len(od) : od[i].k = key].v]

(***************************************************************************)
(* What a collector hands back.  A collector either returns a mapping or   *)
(* raises.  Of a returned mapping the model keeps the fields that          *)
(* collect_all and analyse read: source, status, summary (the counters of  *)
(* _extract_quick_facts), error, azure_ml's completed_jobs and the lists   *)
(* that describe failures.                                                 *)
(***************************************************************************)
\* The "source" field each collector writes into its own result.
SourceField(name) == IF name = "shell" THEN "shell_checks" ELSE name

\* seq of the item numbers 1..n, standing for a list of n jobs, alerts or
\* tickets.
Items(n) == [i \in 1..n |-> i]

\* The summary counters a collector reports with a given status.
SummaryOf(name, status) ==
    CASE name = "azure_ml" ->
           [completed |-> (IF status = "healthy" THEN NumCompleted
                           ELSE IF status = "warning" THEN TrimCap ELSE 0),
            failed    |-> (IF status = "healthy" THEN 0
                           ELSE IF status = "critical" THEN 6 ELSE 1),
            running   |-> 1]
      [] name = "azure_monitor" ->
           [critical |-> (IF status = "critical" THEN 1 ELSE 0),
            warnings |-> (IF status = "warning" THEN 1 ELSE 0)]
      [] name = "jira" ->
           [open_high_priority |-> (IF status = "healthy" THEN 0
                                    ELSE IF status = "critical" THEN 6 ELSE 3),
            resolved_last_24h  |-> 1,
            created_last_7d    |-> 3]
      [] OTHER ->
           [critical |-> (IF status = "critical" THEN 1 ELSE 0),
            warnings |-> (IF status = "warning" THEN 1 ELSE 0)]

\* The detail lists a collector returns beside its summary.
DetailsOf(name, status) ==
    LET sm == SummaryOf(name, status)
    IN CASE name = "azure_ml" ->
              [failed_jobs    |-> Items(sm.failed),
               completed_jobs |-> Items(sm.completed)]
         [] name = "azure_monitor" ->
              [critical_alerts |-> Items(sm.critical),
               warning_alerts  |-> Items(sm.warnings)]
         [] name = "jira" ->
              [open_tickets |-> Items(sm.open_high_priority)]
         [] OTHER ->
              [checks |-> <<[name |-> "disk_usage_check", status |-> status],
                            [name |-> "python_process_check", status |-> "healthy"]>>]

\* The result a collector returns when its upstream calls worked.
OkResult(name, status) ==
    [source  |-> SourceField(name),
     status  |-> status,
     summary |-> SummaryOf(name, status)] @@ DetailsOf(name, status)

\* The result a collector returns when it caught its own failure.
OwnErrorResult(name, msg) ==
    [source |-> SourceField(name), status |-> "error", error |-> msg]

\* shell_collector.py:37-71 when a check could not be run: the check is
\* listed with status "error", which makes the overall status "warning".
ShellCheckErrorResult ==
    [source  |-> "shell_checks",
     status  |-> "warning",
     summary |-> [critical |-> 0, warnings |-> 0],
     checks  |-> <<[name |-> "disk_usage_check", status |-> "error"],
                   [name |-> "python_process_check", status |-> "healthy"]>>]

\* What the system behind a collector does during one call of collect():
\* it answers with data that gives one of the three statuses, the client
\* library raises its own error (JIRAError, HttpResponseError, a check that
\* cannot be run), or some other exception is raised (a connection error,
\* a missing attribute while a result is formatted, a PermissionError of
\* Path.exists).
Upstream ==
    {[kind |-> "ok", status |-> st] : st \in {"healthy", "warning", "critical"}}
    \cup {[kind |-> "api_error", msg |-> "access denied"],
          [kind |-> "other_error", msg |-> "timed out"]}

\* str(e) of the exception raised inside collector `name`.
ExcMsg(name, up) == name \o " " \o up.msg

Raised(name, up) == [kind |-> "exception", msg |-> ExcMsg(name, up)]

Returns(value) == [kind |-> "result", value |-> value]

\* collect() of the four collectors: what the future of collector `name`
\* ends with when the system behind it does `up`.
\*   azure_ml.py:37,109-116        except Exception: error result
\*   azure_monitor.py:96-111       a failed query gives no alerts (healthy);
\*   azure_monitor.py:32,70-77     except Exception: error result
\*   jira_collector.py:30,100-107  except JIRAError only
\*   shell_collector.py:36-49      a failed check is listed; nothing else
\*                                 is caught
collect(name, up) ==
    IF up.kind = "ok"
    THEN Returns(OkResult(name, up.status))
    ELSE CASE name = "azure_ml" ->
                Returns(OwnErrorResult(name, ExcMsg(name, up)))
           [] name = "azure_monitor" ->
                IF up.kind = "api_error"
                THEN Returns(OkResult(name, "healthy"))
                ELSE Returns(OwnErrorResult(name, ExcMsg(name, up)))
           [] name = "jira" ->
                IF up.kind = "api_error"
                THEN Returns(OwnErrorResult(name, ExcMsg(name, up)))
                ELSE Raised(name, up)
           [] OTHER ->
                IF up.kind = "api_error"
                THEN Returns(ShellCheckErrorResult)
                ELSE Raised(name, up)

\* Everything the future of collector `name` can end with.
Outcomes(name) == {collect(name, up) : up \in Upstream}

Running == [kind |-> "running"]

(***************************************************************************)
(* State                                                                   *)
(***************************************************************************)
VARIABLES
    pc,         \* position of the main thread in run_health_check
    clock,      \* the wall clock, read by datetime.now()
    futures,    \* source id -> state of the Future of its collector
    yielded,    \* the futures as_completed has yielded so far
    results,    \* collect_all's `results` dict, in insertion order
    snapshot,   \* the Snapshot returned by collect_all
    prompt,     \* the prompt built by _build_prompt
    calls,      \* number of invocations of client.messages.create
    response,   \* what the service call ended with
    report,     \* the Report returned by analyse
    writes,     \* source id -> number of assignments to results[source id]
    raw         \* the local `raw` of analyse: the reply text, fence removed

vars == <<pc, clock, futures, yielded, results, snapshot, prompt, calls, response, report,
          writes, raw>>

None == [none |-> TRUE]

Init ==
    /\ pc = "start"
    /\ clock = 0
    /\ futures = [n \in SourceIds |-> [kind |-> "unsubmitted"]]
    /\ yielded = {}
    /\ results = <<>>
    /\ snapshot = None
    /\ prompt = None
    /\ calls = 0
    /\ response = None
    /\ report = None
    /\ writes = [n \in SourceIds |-> 0]
    /\ raw = None

(***************************************************************************)
(* collect_all (aggregator.py)                                             *)
(***************************************************************************)
\* Mutant of Rank: "error" is missing from the table and ranks as 0.
Rank_NoError(s) ==
    IF s \in (DOMAIN STATUS_RANK) \ {"error"} THEN STATUS_RANK[s] ELSE 0

\* Mutant of Rank: a status that is not in the table ranks above all.
Rank_DefaultTop(s) == IF s \in DOMAIN STATUS_RANK THEN STATUS_RANK[s] ELSE 3

\* STATUS_RANK.get(s, 0)
Rank(s) == IF s \in DOMAIN STATUS_RANK THEN STATUS_RANK[s] ELSE 0

\* Mutant of ErrorResult: the exception's message is not carried over.
ErrorResult_NoMessage(name, msg, now) ==
    [source |-> name, status |-> "error", error |-> "collector failed",
     collected_at |-> now]

\* aggregator.py:42-47, the result synthesized for a collector that raised.
ErrorResult(name, msg, now) ==
    [source |-> name, status |-> "error", error |-> msg, collected_at |-> now]

\* Mutant of StoreCompleted: a future that raised is logged and skipped.
StoreCompleted_DropRaised(res, name, fut, now) ==
    IF fut.kind = "result" THEN OPut(res, name, fut.value) ELSE res

\* A returned value that is no dict (None, a list, a string): it has no
\* method get.
NonMapping == [pytype |-> "NoneType"]

IsMapping(v) == "pytype" \notin DOMAIN v

\* str(e) of the AttributeError that results[name].get raises at
\* aggregator.py:39 for a value that is no dict.
NoGetMsg == "'NoneType' object has no attribute 'get'"

\* aggregator.py:37-47: the except clause is reached when future.result()
\* raises, and also when the log line (aggregator.py:39) raises after the
\* returned value has been stored.
ReachesExcept(fut) ==
    \/ fut.kind = "exception"
    \/ fut.kind = "result" /\ ~IsMapping(fut.value)

\* aggregator.py:37-47, the values assigned to results[name] in one
\* iteration of the as_completed loop, in the order of the assignments:
\* line 38 stores the returned value, line 42 the synthesized error result.
AssignedValues(name, fut, now) ==
    IF fut.kind = "result"
    THEN IF IsMapping(fut.value)
         THEN <<fut.value>>
         ELSE <<fut.value, ErrorResult(name, NoGetMsg, now)>>
    ELSE <<ErrorResult(name, fut.msg, now)>>

\* aggregator.py:37-47, the body of the as_completed loop for one future:
\* results[name] after the assignments of AssignedValues.
StoreCompleted(res, name, fut, now) ==
    LET vals == AssignedValues(name, fut, now)
    IN IF Len(vals) = 1
       THEN OPut(res, name, vals[1])
       ELSE OPut(OPut(res, name, vals[1]), name, vals[2])

\* aggregator.py:50-54, the merge loop over results.values(), started from
\* `overall` and run over the results `vals` in their order.
RECURSIVE MergeLoop(_, _)
MergeLoop(overall, vals) ==
    IF vals = <<>>
    THEN overall
    ELSE LET s == Get(Head(vals), "status", "healthy")
         IN MergeLoop(IF Rank(s) > Rank(overall) THEN s ELSE overall, Tail(vals))

\* aggregator.py:50
MergeStatuses(vals) == MergeLoop("healthy", vals)

\* Mutant of HasFacts: a source that failed contributes its counters too,
\* as the zeros its missing summary defaults to.
HasFacts_Always(src) == TRUE

\* Mutant of HasFacts: only a healthy source contributes.
HasFacts_HealthyOnly(src) == Get(src, "status", PyNone) = "healthy"

\* aggregator.py:74,81,87,94: the guard `x.get("status") != "error"` of
\* each source's facts.
HasFacts(src) == Get(src, "status", PyNone) # "error"

\* aggregator.py:69-99
extract_quick_facts(res) ==
    LET ml    == Get(res, "azure_ml", EmptyDict)
        mon   == Get(res, "azure_monitor", EmptyDict)
        jira  == Get(res, "jira", EmptyDict)
        shell == Get(res, "shell", EmptyDict)
        mlS    == Get(ml, "summary", EmptyDict)
        monS   == Get(mon, "summary", EmptyDict)
        jiraS  == Get(jira, "summary", EmptyDict)
        shellS == Get(shell, "summary", EmptyDict)
        f1 == IF HasFacts(ml)
              THEN [ml_jobs_failed    |-> Get(mlS, "failed", 0),
                    ml_jobs_running   |-> Get(mlS, "running", 0),
                    ml_jobs_completed |-> Get(mlS, "completed", 0)]
              ELSE EmptyDict
        f2 == IF HasFacts(mon)
              THEN [monitor_critical_alerts |-> Get(monS, "critical", 0),
                    monitor_warnings        |-> Get(monS, "warnings", 0)]
              ELSE EmptyDict
        f3 == IF HasFacts(jira)
              THEN [jira_open_high_priority |-> Get(jiraS, "open_high_priority", 0),
                    jira_resolved_24h       |-> Get(jiraS, "resolved_last_24h", 0),
                    jira_created_7d         |-> Get(jiraS, "created_last_7d", 0)]
              ELSE EmptyDict
        f4 == IF HasFacts(shell)
              THEN [shell_checks_critical |-> Get(shellS, "critical", 0),
                    shell_checks_warnings |-> Get(shellS, "warnings", 0)]
              ELSE EmptyDict
    IN f1 @@ f2 @@ f3 @@ f4

\* aggregator.py:49-63, the snapshot built from the filled `results`.
BuildSnapshot(res, now) ==
    [collected_at   |-> now,
     overall_status |-> MergeStatuses(OValues(res)),
     sources        |-> ODict(res),
     quick_facts    |-> extract_quick_facts(ODict(res))]

\* aggregator.py:33-34, executor.submit for every collector.
Submit ==
    /\ pc = "start"
    /\ futures' = [n \in SourceIds |-> Running]
    /\ pc' = "collecting"
    /\ UNCHANGED <<clock, yielded, results, snapshot, prompt, calls, response, report, writes, raw>>

\* A worker thread: collector `name` returns or raises, which completes its
\* future.
CollectorFinish(name) ==
    /\ futures[name] = Running
    /\ \E out \in Outcomes(name) : futures' = [futures EXCEPT ![name] = out]
    /\ UNCHANGED <<pc, clock, yielded, results, snapshot, prompt, calls, response, report, writes, raw>>

\* Mutant of Yields: a future that raised is never yielded.
Yields_ResultsOnly(name) ==
    /\ futures[name].kind = "result"
    /\ name \notin yielded

\* aggregator.py:35, as_completed(futures) yields each future once, after
\* it has finished, with a result or with an exception.
Yields(name) ==
    /\ futures[name].kind \in {"result", "exception"}
    /\ name \notin yielded

\* Mutant of Joined: the loop is left after the first future.
Joined_FirstCompleted == yielded # {}

\* aggregator.py:33-47: the as_completed loop ends, and the with-block of
\* the executor is left, when every submitted future has been yielded.
Joined == yielded = SourceIds

\* aggregator.py:35-47, one iteration of the as_completed loop: a finished
\* future not yet yielded is handled by the main thread.
HandleCompleted(name) ==
    /\ pc = "collecting"
    /\ Yields(name)
    /\ yielded' = yielded \cup {name}
    /\ results' = StoreCompleted(results, name, futures[name], clock)
    /\ writes' = [writes EXCEPT ![name] = @ + Len(AssignedValues(name, futures[name], clock))]
    /\ clock' = IF ReachesExcept(futures[name]) THEN clock + 1 ELSE clock
    /\ UNCHANGED <<pc, futures, snapshot, prompt, calls, response, report, raw>>

\* aggregator.py:49-66, after the executor's with-block: every future has
\* been yielded; merge the statuses, build the snapshot and return it.  The
\* local `results` ends here: the snapshot holds the dict, and from here on
\* it is read by key only.
AssembleSnapshot ==
    /\ pc = "collecting"
    /\ Joined
    /\ snapshot' = BuildSnapshot(results, clock)
    /\ clock' = clock + 1
    /\ results' = <<>>
    /\ pc' = "collected"
    /\ UNCHANGED <<futures, yielded, prompt, calls, response, report, writes, raw>>

\* The reply of the narrative-generation service.
\*
\* A reply text is a sequence of tokens: the fence (three backticks), the
\* word json, a whitespace character, and body tokens, each standing for a
\* piece of text that holds no fence and no surrounding whitespace.
\* JsonDocs gives the value json.loads makes of a body that is well-formed
\* JSON; any other body is not JSON.
Fence == "<fence>"
JsonWord == "json"
Space == " "

\* A reply that follows the schema of SYSTEM_PROMPT (agent.py:28-56).  Its
\* generated_at is not the time of this run.
ConformingReport ==
    [overall_status |-> "critical",
     headline  |-> "headline",
     narrative |-> "narrative",
     anomalies |-> <<[severity |-> "warning", source |-> "jira",
                      title |-> "title", detail |-> "detail"]>>,
     recommended_actions |-> <<[priority |-> 1, action |-> "action",
                                rationale |-> "rationale",
                                owner |-> "Platform Engineer"]>>,
     source_statuses |-> [n \in SourceIds |-> "warning"],
     generated_at |-> -1]

\* d without key k.
Without(d, k) == [x \in (DOMAIN d) \ {k} |-> d[x]]

JObject(fields) == [type |-> "object", obj |-> fields]

\* body token -> the value json.loads returns for it.
JsonDocs ==
    [conforming      |-> JObject(ConformingReport),
     with_error      |-> JObject(Put(ConformingReport, "error", "none")),
     no_anomalies    |-> JObject(Without(ConformingReport, "anomalies")),
     bad_severity    |-> JObject([ConformingReport EXCEPT
                            !.anomalies = <<[severity |-> "fatal", source |-> "jira",
                                             title |-> "title", detail |-> "detail"]>>]),
     bad_priority    |-> JObject([ConformingReport EXCEPT
                            !.recommended_actions =
                                <<[priority |-> 0, action |-> "action",
                                   rationale |-> "rationale",
                                   owner |-> "Platform Engineer"]>>]),
     partial_sources |-> JObject([ConformingReport EXCEPT
                            !.source_statuses = [n \in SourceIds \ {"shell"} |-> "healthy"]]),
     bad_source_status |-> JObject([ConformingReport EXCEPT
                            !.source_statuses = [n \in SourceIds |-> "unknown"]]),
     bad_status      |-> JObject([ConformingReport EXCEPT !.overall_status = "fine"]),
     null_status     |-> JObject([ConformingReport EXCEPT !.overall_status = PyNone]),
     no_status       |-> JObject(Without(ConformingReport, "overall_status")),
     empty_object    |-> JObject(EmptyDict),
     array           |-> [type |-> "array"],
     number          |-> [type |-> "number"]]

\* Body tokens: the well-formed JSON documents and one piece of prose.
Bodies == (DOMAIN JsonDocs) \cup {"prose"}

Pad(n) == [i \in 1..n |-> Space]

\* The reply texts of the model: a body bare or inside a fence, with or
\* without the word json after the opening fence, padded with whitespace;
\* a fence that is never closed; prose before or after a document; nothing.
ReplyTexts ==
    UNION {
        { Pad(n) \o <<b>> \o Pad(n),
          Pad(n) \o <<Fence>> \o Pad(n) \o <<b>> \o Pad(n) \o <<Fence>> \o Pad(n),
          Pad(n) \o <<Fence, JsonWord>> \o Pad(n) \o <<b>> \o Pad(n) \o <<Fence>> } :
        n \in 0..MaxPad, b \in Bodies }
    \cup { <<>>, <<Fence, JsonWord, "conforming">>, <<Fence>>,
           <<"prose", Space, "conforming">>, <<"conforming", Space, "prose">> }

\* Everything client.messages.create can end with: a reply or an exception.
ServiceOutcomes ==
    {[kind |-> "text", text |-> t] : t \in ReplyTexts}
    \cup {[kind |-> "exception", type |-> "APIError", msg |-> m] : m \in Msgs}

(***************************************************************************)
(* analyse (agent.py)                                                      *)
(***************************************************************************)
\* str.upper() on the status words the prompt header and the log line show.
Upper(w) ==
    CASE w = "healthy"  -> "HEALTHY"
      [] w = "warning"  -> "WARNING"
      [] w = "critical" -> "CRITICAL"
      [] w = "error"    -> "ERROR"
      [] w = "unknown"  -> "UNKNOWN"
      [] OTHER          -> "UPPER(" \o w \o ")"

\* Mutant of Take: seq[-n:], the last n items.
Take_Tail(seq, n) ==
    IF Len(seq) <= n THEN seq ELSE SubSeq(seq, Len(seq) - n + 1, Len(seq))

\* seq[:n]
Take(seq, n) == SubSeq(seq, 1, IF Len(seq) < n THEN Len(seq) ELSE n)

\* agent.py:135-144.  The deep copy is the value itself; the assignment to
\* ml["completed_jobs"] reaches the copy only when the copy has an azure_ml
\* entry (otherwise `ml` is a fresh dict that is thrown away).
trim_snapshot(snap) ==
    LET srcs == Get(snap, "sources", EmptyDict)
        ml   == Get(srcs, "azure_ml", EmptyDict)
        cut  == Take(Get(ml, "completed_jobs", <<>>), TrimCap)
    IN IF "sources" \in DOMAIN snap /\ "azure_ml" \in DOMAIN srcs
       THEN Put(snap, "sources", Put(srcs, "azure_ml", Put(ml, "completed_jobs", cut)))
       ELSE snap

\* agent.py:111,117: overall.upper() raises when overall_status is no string.
build_prompt_raises(snap) == Get(snap, "overall_status", "unknown") = PyNone

\* agent.py:107-132.  The prompt is kept as its parts: the values the header
\* interpolates and the lean snapshot that json.dumps serializes.
build_prompt(snap) ==
    LET facts == Get(snap, "quick_facts", EmptyDict)
    IN [collected_at |-> Get(snap, "collected_at", "unknown"),
        overall      |-> Upper(Get(snap, "overall_status", "unknown")),
        facts        |-> [k \in {"ml_jobs_failed", "ml_jobs_running", "ml_jobs_completed",
                                 "monitor_critical_alerts", "monitor_warnings",
                                 "jira_open_high_priority", "jira_resolved_24h",
                                 "shell_checks_critical", "shell_checks_warnings"}
                              |-> IF k \in DOMAIN facts THEN <<facts[k]>> ELSE <<"?">>],
        data         |-> trim_snapshot(snap)]

\* str.strip() on a reply text.
RECURSIVE LStrip(_)
LStrip(t) == IF t # <<>> /\ Head(t) = Space THEN LStrip(Tail(t)) ELSE t

RECURSIVE RStrip(_)
RStrip(t) ==
    IF t # <<>> /\ t[Len(t)] = Space THEN RStrip(SubSeq(t, 1, Len(t) - 1)) ELSE t

Strip(t) == RStrip(LStrip(t))

\* The text before the first fence of t (all of t when it has none).
RECURSIVE UpToFence(_)
UpToFence(t) ==
    IF t = <<>> \/ Head(t) = Fence THEN <<>> ELSE <<Head(t)>> \o UpToFence(Tail(t))

\* Mutant of Unwrap: the word json after the fence is not dropped.
Unwrap_KeepJson(text) ==
    LET stripped == Strip(text)
    IN Strip(IF stripped # <<>> /\ Head(stripped) = Fence
             THEN UpToFence(Tail(stripped))
             ELSE stripped)

\* agent.py:83-90: strip, drop a leading fence (and the word json after it)
\* through the next fence, strip again.
Unwrap(text) ==
    LET stripped == Strip(text)
        cut == IF stripped # <<>> /\ Head(stripped) = Fence
               THEN LET inner == UpToFence(Tail(stripped))  \* raw.split(fence)[1]
                    IN IF inner # <<>> /\ Head(inner) = JsonWord
                       THEN Tail(inner)                      \* raw[4:]
                       ELSE inner
               ELSE stripped
    IN Strip(cut)

\* json.loads: the text must be exactly one well-formed document.
json_loads(t) ==
    IF Len(t) = 1 /\ t[1] \in DOMAIN JsonDocs
    THEN [ok |-> TRUE, value |-> JsonDocs[t[1]]]
    ELSE [ok |-> FALSE,
          msg |-> IF t # <<>> /\ Head(t) \in DOMAIN JsonDocs
                  THEN "Extra data" ELSE "Expecting value"]

\* Mutant of SourceStatusOf: a source without an entry is reported as
\* "error".
SourceStatusOf_DefaultError(snap, src) ==
    Get(Get(Get(snap, "sources", EmptyDict), src, [status |-> "error"]), "status", "unknown")

\* agent.py:162-165: snapshot.get("sources", {}).get(src, {}).get("status",
\* "unknown") for one of the four source ids.
SourceStatusOf(snap, src) ==
    Get(Get(Get(snap, "sources", EmptyDict), src, EmptyDict), "status", "unknown")

\* Mutant of fallback_report: the overall status is always "error" instead
\* of the snapshot's.
fallback_report_StatusError(snap, error, now) ==
    [overall_status |-> "error",
     headline  |-> "Health report generation failed",
     narrative |-> "The agent encountered an error during analysis: " \o error,
     anomalies |-> <<>>,
     recommended_actions |-> <<[priority |-> 1,
                                action |-> "Review raw collected data in the JSON log file",
                                rationale |-> "LLM analysis failed",
                                owner |-> "Platform Engineer"]>>,
     source_statuses |->
        [src \in SourceIds |-> SourceStatusOf(snap, src)],
     generated_at |-> now,
     error |-> error]

\* agent.py:147-168
fallback_report(snap, error, now) ==
    [overall_status |-> Get(snap, "overall_status", "error"),
     headline  |-> "Health report generation failed",
     narrative |-> "The agent encountered an error during analysis: " \o error,
     anomalies |-> <<>>,
     recommended_actions |-> <<[priority |-> 1,
                                action |-> "Review raw collected data in the JSON log file",
                                rationale |-> "LLM analysis failed",
                                owner |-> "Platform Engineer"]>>,
     source_statuses |->
        [src \in SourceIds |-> SourceStatusOf(snap, src)],
     generated_at |-> now,
     error |-> error]

Raise(type, msg, reads) == [kind |-> "raise", type |-> type, msg |-> msg, reads |-> reads]

\* Mutant of Stamp: a generated_at that the reply brings is kept.
Stamp_KeepGiven(obj, snap, now) ==
    Put(Put(obj, "generated_at", Get(obj, "generated_at", now)),
        "snapshot_collected_at", Get(snap, "collected_at", PyNone))

\* agent.py:93-94, the two stamps put on the parsed object.
Stamp(obj, snap, now) ==
    Put(Put(obj, "generated_at", now),
        "snapshot_collected_at", Get(snap, "collected_at", PyNone))

\* agent.py:76-97, the body of the try statement once the service call has
\* ended with `resp`: what it returns, or the exception it raises, and how
\* many times it read the clock.
TryBody(snap, resp, now) ==
    IF resp.kind = "exception"
    THEN Raise(resp.type, resp.msg, 0)
    ELSE LET parsed == json_loads(Unwrap(resp.text))
         IN IF ~parsed.ok
            THEN Raise("JSONDecodeError", parsed.msg, 0)
            ELSE IF parsed.value.type # "object"
            THEN Raise("TypeError", "object does not support item assignment", 0)
            ELSE LET stamped == Stamp(parsed.value.obj, snap, now)
                 IN IF Get(stamped, "overall_status", "unknown") = PyNone
                    THEN Raise("AttributeError", "object has no attribute upper", 1)
                    ELSE [kind |-> "return", report |-> stamped, reads |-> 1]

\* Mutant of ExceptClause: only json.JSONDecodeError is caught.
ExceptClause_JsonOnly(type) == IF type = "JSONDecodeError" THEN "json" ELSE "none"

\* agent.py:99,102: the except clause that takes an exception of the try body.
ExceptClause(type) == IF type = "JSONDecodeError" THEN "json" ELSE "generic"

\* agent.py:75-104, analyse from the end of the service call on.
analyse_finish(snap, resp, now) ==
    LET body == TryBody(snap, resp, now)
        clause == ExceptClause(body.type)
    IN IF body.kind = "return" THEN body
       ELSE IF clause = "json"
       THEN [kind |-> "return", reads |-> body.reads + 1,
             report |-> fallback_report(snap, "JSON parse error: " \o body.msg,
                                        now + body.reads)]
       ELSE IF clause = "generic"
       THEN [kind |-> "return", reads |-> body.reads + 1,
             report |-> fallback_report(snap, body.msg, now + body.reads)]
       ELSE [kind |-> "raise", reads |-> body.reads]

\* Mutant of snapshot_after_trim: s = dict(snapshot), a shallow copy, whose
\* "sources" and azure_ml dicts are the caller's, so the assignment to
\* ml["completed_jobs"] is made in the caller's snapshot.
snapshot_after_trim_Shallow(snap) == trim_snapshot(snap)

\* agent.py:138: the caller's snapshot after _trim_snapshot has run.  `s` is
\* copy.deepcopy(snapshot) and shares no dict or list with it, so the
\* assignment at agent.py:142 leaves the caller's snapshot as it was.
snapshot_after_trim(snap) == snap

\* agent.py:73, prompt = _build_prompt(snapshot), outside the try statement.
\* overall.upper() (agent.py:117) raises before _trim_snapshot is called.
BuildPrompt ==
    /\ pc = "collected"
    /\ IF build_prompt_raises(snapshot)
       THEN pc' = "aborted" /\ UNCHANGED <<prompt, snapshot>>
       ELSE /\ pc' = "invoking"
            /\ prompt' = build_prompt(snapshot)
            /\ snapshot' = snapshot_after_trim(snapshot)
    /\ UNCHANGED <<clock, futures, yielded, results, calls, response, report, writes, raw>>

\* Mutant of MayInvoke: a call that raised is made once more.
MayInvoke_RetryOnError ==
    \/ pc = "invoking"
    \/ pc = "responded" /\ response.kind = "exception" /\ calls < 2

\* agent.py:75-81: the call is one statement of the try body, in no loop,
\* and neither except clause (agent.py:99-104) makes it again.
MayInvoke == pc = "invoking"

\* agent.py:76-81, client.messages.create returns a reply or raises.
InvokeService ==
    /\ MayInvoke
    /\ \E out \in ServiceOutcomes : response' = out
    /\ calls' = calls + 1
    /\ pc' = "responded"
    /\ UNCHANGED <<clock, futures, yielded, results, snapshot, prompt, report, writes, raw>>

\* agent.py:83-104, the rest of analyse: it returns a report, or an
\* exception leaves it and run_health_check logs the failed run.
FinishAnalyse ==
    /\ pc = "responded"
    /\ LET r == analyse_finish(snapshot, response, clock)
       IN /\ clock' = clock + r.reads
          /\ IF r.kind = "return"
             THEN pc' = "analysed" /\ report' = r.report
             ELSE pc' = "aborted" /\ UNCHANGED report
    /\ raw' = IF response.kind = "text" THEN Unwrap(response.text) ELSE raw
    /\ UNCHANGED <<futures, yielded, results, snapshot, prompt, calls, response, writes>>

\* main.py:59-67, render_and_deliver returns or raises.
RenderDeliver ==
    /\ pc = "analysed"
    /\ \E ok \in BOOLEAN : pc' = IF ok THEN "done" ELSE "aborted"
    /\ UNCHANGED <<clock, futures, yielded, results, snapshot, prompt, calls, response, report, writes, raw>>

Next ==
    \/ Submit
    \/ \E name \in SourceIds : CollectorFinish(name)
    \/ \E name \in SourceIds : HandleCompleted(name)
    \/ AssembleSnapshot
    \/ BuildPrompt
    \/ InvokeService
    \/ FinishAnalyse
    \/ RenderDeliver

Spec == Init /\ [][Next]_vars

(***************************************************************************)
(* collect_all alone, with the scheduling it runs under.  The main thread  *)
(* is always scheduled again: a finished future is yielded by as_completed *)
(* and handled, and the snapshot is assembled once the loop has ended.     *)
(* Nothing makes a collector finish: no timeout is passed to as_completed  *)
(* or to future.result(), so CollectorFinish has no fairness.              *)
(***************************************************************************)
MainThread ==
    \/ Submit
    \/ \E name \in SourceIds : HandleCompleted(name)
    \/ AssembleSnapshot

NextCollect ==
    \/ MainThread
    \/ \E name \in SourceIds : CollectorFinish(name)

SpecCollect == Init /\ [][NextCollect]_vars /\ WF_vars(MainThread)

(***************************************************************************)
(* collect_all against any collectors.  collect_all stores whatever the    *)
(* callable of a source returns (aggregator.py:38), so besides what the    *)
(* four collectors of this repository end with, a collector here may       *)
(* return a value that is no dict, a result without a status, or a result  *)
(* whose status is none of the four.                                       *)
(***************************************************************************)
\* What a collector callable of any kind can end with, beside Outcomes.
OddOutcomes(name) ==
    {Returns(NonMapping),
     Returns([source |-> SourceField(name), summary |-> SummaryOf(name, "healthy")]),
     Returns([source |-> SourceField(name), status |-> "degraded",
              summary |-> SummaryOf(name, "warning")])}

\* aggregator.py:34,38: the future of collector `name` finishes.
CollectorFinishAny(name) ==
    /\ futures[name] = Running
    /\ \E out \in Outcomes(name) \cup OddOutcomes(name) :
          futures' = [futures EXCEPT ![name] = out]
    /\ UNCHANGED <<pc, clock, yielded, results, snapshot, prompt, calls, response, report,
                   writes, raw>>

NextCollectAny ==
    \/ MainThread
    \/ \E name \in SourceIds : CollectorFinishAny(name)

SpecCollectAny == Init /\ [][NextCollectAny]_vars

(***************************************************************************)
(* The unwrap step of analyse (agent.py:83-90) as a function of the reply  *)
(* text: it is applied to every text of up to MaxTokens tokens, and then   *)
(* once more to what it gave.                                              *)
(***************************************************************************)
MaxTokens == 5

Tokens == {Fence, JsonWord, Space, "conforming", "prose"}

Texts == UNION {[1..n -> Tokens] : n \in 0..MaxTokens}

InitUnwrap ==
    /\ pc = "responded"
    /\ clock = 0
    /\ futures = [n \in SourceIds |-> [kind |-> "unsubmitted"]]
    /\ yielded = {}
    /\ results = <<>>
    /\ snapshot = None
    /\ prompt = None
    /\ calls = 1
    /\ response \in {[kind |-> "text", text |-> t] : t \in Texts}
    /\ report = None
    /\ writes = [n \in SourceIds |-> 0]
    /\ raw = None

\* agent.py:83-90 applied to the reply text.
UnwrapReply ==
    /\ pc = "responded"
    /\ raw' = Unwrap(response.text)
    /\ pc' = "unwrapped"
    /\ UNCHANGED <<clock, futures, yielded, results, snapshot, prompt, calls, response,
                   report, writes>>

\* agent.py:83-90 applied to its own output.
UnwrapAgain ==
    /\ pc = "unwrapped"
    /\ raw' = Unwrap(raw)
    /\ pc' = "unwrapped_again"
    /\ UNCHANGED <<clock, futures, yielded, results, snapshot, prompt, calls, response,
                   report, writes>>

NextUnwrap ==
    \/ UnwrapReply
    \/ UnwrapAgain

SpecUnwrap == InitUnwrap /\ [][NextUnwrap]_vars

(***************************************************************************)
(* analyse as a function of its argument.  analyse reads the snapshot with *)
(* .get and a default at every level, so it is also defined for snapshots  *)
(* that collect_all does not build: here it is called with snapshots that  *)
(* hold any subset of the four source entries.                             *)
(***************************************************************************)
\* The entry of source `name` in an argument snapshot.
InputEntry(name) ==
    CASE name = "azure_ml" -> OkResult(name, "critical")
      [] name = "azure_monitor" -> OkResult(name, "warning")
      [] name = "jira" -> ErrorResult(name, "jira timed out", 0)
      [] OTHER -> OkResult(name, "healthy")

\* The snapshot that holds the entries of the sources in S.
InputSnapshot(S) ==
    LET names == SelectSeq(SourceOrder, LAMBDA n : n \in S)
    IN BuildSnapshot([i \in 1..Len(names) |-> [k |-> names[i], v |-> InputEntry(names[i])]], 0)

\* agent.py:67, analyse(snapshot) is entered.
InitAnalyse ==
    /\ pc = "collected"
    /\ clock = 1
    /\ futures = [n \in SourceIds |-> [kind |-> "unsubmitted"]]
    /\ yielded = {}
    /\ results = <<>>
    /\ snapshot \in {InputSnapshot(S) : S \in SUBSET SourceIds}
    /\ prompt = None
    /\ calls = 0
    /\ response = None
    /\ report = None
    /\ writes = [n \in SourceIds |-> 0]
    /\ raw = None

NextAnalyse ==
    \/ BuildPrompt
    \/ InvokeService
    \/ FinishAnalyse

SpecAnalyse == InitAnalyse /\ [][NextAnalyse]_vars

(***************************************************************************)
(* Properties                                                              *)
(***************************************************************************)
\* collect_all has returned its snapshot.
Returned == snapshot # None

\* analyse has returned its report.
Analysed == report # None

\* The ranks as the specification states them:
\* healthy(0) < warning(1) < critical(2) == error(2).
ClaimRank(s) ==
    CASE s = "healthy" -> 0
      [] s = "warning" -> 1
      [] s \in {"critical", "error"} -> 2

\* The largest of a set of ranks, 0 for the empty set.
MaxOf(ranks) == CHOOSE m \in ranks \cup {0} : \A r \in ranks : r <= m

\* All orderings of a sequence.
PermsOf(seq) ==
    {[i \in 1..Len(seq) |-> seq[p[i]]] : p \in Permutations(1..Len(seq))}

\* C1. Completeness: whatever the four collectors did (returned or raised),
\* the snapshot returned by collect_all has a sources mapping whose keys are
\* exactly the four configured source ids.
C1_Completeness == Returned => DOMAIN snapshot.sources = SourceIds

\* collect_all has returned although some collector raised while another
\* returned a result.
C1_Witness ==
    /\ Returned
    /\ \E a, b \in SourceIds :
          futures[a].kind = "exception" /\ futures[b].kind = "result"

\* C2. Isolation: in the snapshot collect_all returns, the entry of every
\* collector that raised is a synthesized result with its own source id,
\* status "error" and the exception's message, and the entry of every
\* collector that returned is exactly the value it returned.
C2_Isolation ==
    Returned =>
        \A n \in SourceIds :
            LET e == snapshot.sources[n]
            IN /\ futures[n].kind = "exception" =>
                    /\ DOMAIN e = {"source", "status", "error", "collected_at"}
                    /\ e.source = n
                    /\ e.status = "error"
                    /\ e.error = futures[n].msg
               /\ futures[n].kind = "result" => e = futures[n].value

\* collect_all has returned after two collectors raised and two returned.
C2_Witness ==
    /\ Returned
    /\ Cardinality({n \in SourceIds : futures[n].kind = "exception"}) = 2
    /\ futures["azure_ml"].kind = "result"

\* C3. Status merge maximum: the rank of the merged status is the largest
\* rank among the source statuses (healthy 0, warning 1, critical and error
\* 2), both for the snapshot's overall_status and for the merge of the
\* results gathered so far, and the merge of no statuses is "healthy".
C3_MergeMaximum ==
    /\ Returned =>
          ClaimRank(snapshot.overall_status) =
              MaxOf({ClaimRank(snapshot.sources[n].status) : n \in SourceIds})
    /\ ClaimRank(MergeStatuses(OValues(results))) =
          MaxOf({ClaimRank(results[i].v.status) : i \in 1..Len(results)})
    /\ MergeStatuses(<<>>) = "healthy"

\* A snapshot whose worst source is a collector that raised, the others
\* being healthy or warning.
C3_Witness ==
    /\ Returned
    /\ snapshot.overall_status = "error"
    /\ futures["shell"].kind = "exception"
    /\ \A n \in SourceIds \ {"shell"} :
          snapshot.sources[n].status \in {"healthy", "warning"}

\* C4. Status merge permutation invariance: the merge loop gives the same
\* status value for every ordering of the statuses it is run over.
C4_PermutationInvariant ==
    \A vals \in PermsOf(OValues(results)) :
        MergeStatuses(vals) = MergeStatuses(OValues(results))

\* C5. Completion-order independence: the overall_status and quick_facts of
\* the snapshot are those collect_all computes for every other order in
\* which the same futures could have been yielded.
C5_OrderIndependent ==
    Returned =>
        \A order \in PermsOf(SourceOrder) :
            LET vals == [i \in 1..Len(order) |-> snapshot.sources[order[i]]]
            IN /\ MergeStatuses(vals) = snapshot.overall_status
               /\ extract_quick_facts(snapshot.sources) = snapshot.quick_facts

\* What the reply of the service parses to, once unwrapped.
ParsedReply == json_loads(Unwrap(response.text))

\* The fields of a Report.
ReportFields ==
    {"overall_status", "headline", "narrative", "anomalies",
     "recommended_actions", "source_statuses", "generated_at"}

\* The Report schema as the specification states it: every field of a
\* Report, the statuses among the four, every anomaly severity among
\* critical, warning and info, every priority a positive integer, and a
\* status for each of the four sources.
Conforms(obj) ==
    /\ ReportFields \subseteq DOMAIN obj
    /\ obj.overall_status \in Statuses
    /\ \A i \in 1..Len(obj.anomalies) :
          obj.anomalies[i].severity \in {"critical", "warning", "info"}
    /\ \A i \in 1..Len(obj.recommended_actions) :
          obj.recommended_actions[i].priority \in Nat \ {0}
    /\ DOMAIN obj.source_statuses = SourceIds
    /\ \A n \in SourceIds : obj.source_statuses[n] \in Statuses

\* The reply is text that json.loads accepts and that is a conforming object.
ConformingReply ==
    /\ response.kind = "text"
    /\ ParsedReply.ok
    /\ ParsedReply.value.type = "object"
    /\ Conforms(ParsedReply.value.obj)

\* r is the report _fallback_report builds for the snapshot.
IsFallback(r) ==
    /\ "error" \in DOMAIN r
    /\ "generated_at" \in DOMAIN r
    /\ r = fallback_report(snapshot, r.error, r.generated_at)

\* The service call raised, or the try body raised on its reply: the reply
\* is no JSON, no JSON object, or an object whose overall_status is null.
FallbackTaken ==
    \/ response.kind = "exception"
    \/ /\ response.kind = "text"
       /\ \/ ~ParsedReply.ok
          \/ ParsedReply.value.type # "object"
          \/ Get(ParsedReply.value.obj, "overall_status", "unknown") = PyNone

\* C6. analyse always returns a Report and never raises: the run is never
\* aborted between the return of collect_all and the return of analyse,
\* whatever the service call does.
C6_AnalyseReturns ==
    /\ pc = "aborted" => Analysed
    /\ pc \in {"analysed", "done"} => Analysed

\* analyse has returned although the reply was JSON that is no object.
C6_Witness ==
    /\ pc = "analysed"
    /\ response.kind = "text"
    /\ ParsedReply.ok
    /\ ParsedReply.value.type = "array"

\* C7. Validation to fallback: whenever the reply fails to parse, or parses
\* to something that does not match the Report schema, analyse returns the
\* fallback report and not the parsed object.
C7_ValidationToFallback ==
    (Analysed /\ response.kind = "text" /\ ~ConformingReply) => IsFallback(report)

\* C8. Every report analyse returns has all the fields of a Report, with
\* overall_status and every source status among the four statuses.
C8_FullSchema ==
    Analysed =>
        /\ ReportFields \subseteq DOMAIN report
        /\ report.overall_status \in Statuses
        /\ DOMAIN report.source_statuses = SourceIds
        /\ \A n \in SourceIds : report.source_statuses[n] \in Statuses

\* C9. Fallback content: whenever analyse takes the fallback path, the
\* report has the snapshot's overall_status, exactly one recommended action,
\* of priority 1, no anomalies, and a non-empty error that carries the
\* cause: the exception's message, after "JSON parse error: " when the
\* reply could not be parsed.
C9_FallbackContent ==
    (Analysed /\ FallbackTaken) =>
        /\ report.overall_status = snapshot.overall_status
        /\ Len(report.recommended_actions) = 1
        /\ report.recommended_actions[1].priority = 1
        /\ report.anomalies = <<>>
        /\ "error" \in DOMAIN report
        /\ report.error # ""
        /\ response.kind = "exception" => report.error = response.msg
        /\ (response.kind = "text" /\ ~ParsedReply.ok) =>
              report.error = "JSON parse error: " \o ParsedReply.msg

\* analyse has returned after the service call raised, for a snapshot whose
\* overall status is "warning".
C9_Witness ==
    /\ Analysed
    /\ response.kind = "exception"
    /\ snapshot.overall_status = "warning"

\* C10. Success path: when the reply is a well-formed conforming object,
\* the report has the parsed fields with their parsed values, except that
\* generated_at is the time the engine read (not the reply's), and
\* snapshot_collected_at is added with the snapshot's collected_at.
C10_SuccessPath ==
    (Analysed /\ ConformingReply) =>
        LET obj == ParsedReply.value.obj
        IN /\ DOMAIN report = (DOMAIN obj) \cup {"generated_at", "snapshot_collected_at"}
           /\ \A k \in (DOMAIN obj) \ {"generated_at"} : report[k] = obj[k]
           /\ report.generated_at = clock - 1
           /\ report.generated_at > snapshot.collected_at
           /\ report.snapshot_collected_at = snapshot.collected_at

\* analyse has returned for a conforming reply inside a json fence that
\* brings its own generated_at.
C10_Witness ==
    /\ Analysed
    /\ response.kind = "text"
    /\ response.text = <<Fence, JsonWord, "conforming", Fence>>
    /\ ParsedReply.value.obj.generated_at # report.generated_at

\* C11. The error field is on fallback reports only: a report that analyse
\* returns from the success path (the service answered and the try body did
\* not raise) has no "error" field, whatever the reply contained.
C11_ErrorOnlyOnFallback ==
    (Analysed /\ ~FallbackTaken) => "error" \notin DOMAIN report

\* The quick-facts keys of each source, as the specification names them.
FactKeys(n) ==
    CASE n = "azure_ml" -> {"ml_jobs_failed", "ml_jobs_running", "ml_jobs_completed"}
      [] n = "azure_monitor" -> {"monitor_critical_alerts", "monitor_warnings"}
      [] n = "jira" -> {"jira_open_high_priority", "jira_resolved_24h", "jira_created_7d"}
      [] OTHER -> {"shell_checks_critical", "shell_checks_warnings"}

\* The summary counter each quick-facts key is read from.
FactCounter ==
    [ml_jobs_failed          |-> "failed",
     ml_jobs_running         |-> "running",
     ml_jobs_completed       |-> "completed",
     monitor_critical_alerts |-> "critical",
     monitor_warnings        |-> "warnings",
     jira_open_high_priority |-> "open_high_priority",
     jira_resolved_24h       |-> "resolved_last_24h",
     jira_created_7d         |-> "created_last_7d",
     shell_checks_critical   |-> "critical",
     shell_checks_warnings   |-> "warnings"]

\* The sources of the snapshot whose status is "error".
ErroredSources == {n \in SourceIds : snapshot.sources[n].status = "error"}

\* C12. Fact extractor omission: for every source whose entry in the
\* snapshot has status "error", none of that source's keys is in
\* quick_facts; no placeholder stands for a failed source.
C12_FactOmission ==
    Returned =>
        \A n \in ErroredSources :
            FactKeys(n) \cap DOMAIN snapshot.quick_facts = {}

\* collect_all has returned a snapshot with a failed source (one that
\* raised and one that reported its own error) beside sources that have
\* facts.
C12_Witness ==
    /\ Returned
    /\ futures["jira"].kind = "exception"
    /\ futures["azure_ml"].kind = "result"
    /\ ErroredSources = {"jira", "azure_ml"}
    /\ DOMAIN snapshot.quick_facts # {}

\* C13. The keys of quick_facts are exactly the keys of the sources whose
\* status is not "error", and each of them, for a warning or critical
\* source as for a healthy one, has the value of the counter in that
\* source's summary.
C13_FactKeys ==
    Returned =>
        /\ DOMAIN snapshot.quick_facts =
              UNION {FactKeys(n) : n \in SourceIds \ ErroredSources}
        /\ \A n \in SourceIds \ ErroredSources :
              \A k \in FactKeys(n) :
                  snapshot.quick_facts[k] = snapshot.sources[n].summary[FactCounter[k]]

\* collect_all has returned a snapshot with a critical, a warning, a
\* healthy and a failed source.
C13_Witness ==
    /\ Returned
    /\ snapshot.sources["azure_ml"].status = "critical"
    /\ snapshot.sources["shell"].status = "warning"
    /\ snapshot.sources["azure_monitor"].status = "healthy"
    /\ snapshot.sources["jira"].status = "error"
    /\ snapshot.quick_facts.ml_jobs_failed > 0

\* C14. No retry: in one call of analyse the external service is invoked at
\* most once, on the success path, on the path of a reply that does not
\* parse and on the path of a call that raised; a returned report follows
\* exactly one invocation.
C14_NoRetry ==
    /\ calls <= 1
    /\ Analysed => calls = 1

\* analyse has returned the fallback report after its one call raised.
C14_Witness ==
    /\ Analysed
    /\ response.kind = "exception"
    /\ "error" \in DOMAIN report
    /\ calls = 1

FailureLists ==
    {"failed_jobs", "critical_alerts", "warning_alerts", "open_tickets", "checks"}

\* The first min(Len(seq), 5) items of seq, in their order.
Head5(seq) == [i \in 1..(IF Len(seq) < 5 THEN Len(seq) ELSE 5) |-> seq[i]]

\* C16. Payload shaper bound: in the payload built for the service, the
\* azure_ml completed_jobs list is the first min(n, 5) items of the
\* snapshot's list of n items, in the same order, and each failure list
\* (failed_jobs, critical_alerts, warning_alerts, open_tickets, checks) of
\* each source is the snapshot's list, never shortened.
C16_ShaperBound ==
    (prompt # None) =>
        LET lean == prompt.data.sources
            orig == snapshot.sources
        IN /\ "completed_jobs" \in DOMAIN orig["azure_ml"] =>
                 lean["azure_ml"].completed_jobs = Head5(orig["azure_ml"].completed_jobs)
           /\ Len(lean["azure_ml"].completed_jobs) <= 5
           /\ \A n \in SourceIds :
                 \A k \in FailureLists \cap DOMAIN orig[n] :
                     /\ k \in DOMAIN lean[n]
                     /\ lean[n][k] = orig[n][k]

\* The payload is built for a snapshot with more completed jobs than the
\* cap and more open tickets than the cap: the first list is cut, the
\* second is whole.
C16_Witness ==
    /\ prompt # None
    /\ snapshot.sources["azure_ml"].status = "healthy"
    /\ Len(snapshot.sources["azure_ml"].completed_jobs) > 5
    /\ snapshot.sources["jira"].status = "critical"
    /\ Len(prompt.data.sources["jira"].open_tickets) > 5

\* C17. Fallback source statuses: the source_statuses of a fallback report
\* has exactly the four source ids as keys, and the value of each is the
\* status of that source's entry in the snapshot, or "unknown" when the
\* snapshot has no entry for the source.
C17_FallbackSourceStatuses ==
    (Analysed /\ FallbackTaken) =>
        /\ DOMAIN report.source_statuses = SourceIds
        /\ \A n \in SourceIds :
              report.source_statuses[n] =
                  IF n \in DOMAIN snapshot.sources
                  THEN snapshot.sources[n].status
                  ELSE "unknown"

\* analyse has returned the fallback report for a snapshot that has the
\* entries of jira (failed) and shell only.
C17_Witness ==
    /\ Analysed
    /\ FallbackTaken
    /\ DOMAIN snapshot.sources = {"jira", "shell"}
    /\ report.source_statuses["jira"] = "error"
    /\ report.source_statuses["azure_ml"] = "unknown"

\* Collector n has returned or raised.
Finished(n) == futures[n].kind \in {"result", "exception"}

AllFinished == \A n \in SourceIds : Finished(n)

\* C18. Pipeline ordering: the prompt is built and the service is called
\* only after all four collectors have finished and the snapshot is
\* assembled, so no step of analyse runs beside a running collector; and
\* rendering has been done only after analyse returned its report.
C18_PipelineOrdering ==
    /\ (pc \in {"collected", "invoking", "responded", "analysed", "done"}
        \/ prompt # None \/ calls > 0 \/ response # None)
          => (AllFinished /\ Returned)
    /\ pc \in {"analysed", "done"} => (Analysed /\ calls = 1)
    /\ Analysed => (prompt # None /\ response # None)

\* The report has been rendered and delivered.
C18_Witness ==
    /\ pc = "done"
    /\ Analysed
    /\ AllFinished
    /\ calls = 1

\* C19. Join barrier: collect_all has returned only when every collector
\* it dispatched has finished; once every collector has returned or raised,
\* collect_all returns; and in a run where some collector never finishes,
\* collect_all never returns.
C19_JoinBarrier ==
    /\ [](Returned => AllFinished)
    /\ AllFinished ~> Returned
    /\ \A n \in SourceIds : [](~Finished(n)) => [](~Returned)

\* collect_all has returned after the last collector finished by raising.
C19_Witness ==
    /\ pc = "collected"
    /\ Returned
    /\ AllFinished
    /\ futures["shell"].kind = "exception"
    /\ futures["jira"].kind = "result"

\* C20. Collector contract: each of the four collect() functions ends by
\* returning one SourceResult and lets no exception cross its boundary: a
\* collector that has finished has returned a result whose status is one
\* of the four statuses.
C20_CollectorContract ==
    \A n \in SourceIds :
        Finished(n) =>
            /\ futures[n].kind = "result"
            /\ futures[n].value.status \in Statuses

NoFence(seq) == \A i \in 1..Len(seq) : seq[i] # Fence

\* seq without the whitespace at its two ends.
Trimmed(seq) ==
    LET keep == {i \in 1..Len(seq) : seq[i] # Space}
    IN IF keep = {}
       THEN <<>>
       ELSE SubSeq(seq, CHOOSE i \in keep : \A j \in keep : i <= j,
                        CHOOSE i \in keep : \A j \in keep : i >= j)

\* C22. Fence stripping.  Apart from the whitespace around it, a reply text
\* that does not begin with a fence is left as it is; a text that is a
\* fence, optionally the word json, a body without fences and a closing
\* fence becomes the body; and the step applied to its own output changes
\* nothing.
C22_FenceStripping ==
    /\ [](pc = "unwrapped" =>
            LET t == Trimmed(response.text)
                n == Len(t)
            IN /\ (t = <<>> \/ t[1] # Fence) => raw = t
               /\ (n >= 2 /\ t[1] = Fence /\ t[n] = Fence /\ NoFence(SubSeq(t, 2, n - 1))) =>
                     raw = Trimmed(IF n >= 3 /\ t[2] = JsonWord
                                   THEN SubSeq(t, 3, n - 1)
                                   ELSE SubSeq(t, 2, n - 1)))
    /\ [][pc = "unwrapped" => (raw' = raw)]_vars

\* The step has been applied twice to a padded reply inside a json fence.
C22_Witness ==
    /\ pc = "unwrapped_again"
    /\ response.text = <<Space, Fence, JsonWord, "conforming", Fence>>
    /\ raw = <<"conforming">>

\* The entry of source n in the snapshot has a status of rank 1 or 2.
Degrades(n) ==
    /\ "status" \in DOMAIN snapshot.sources[n]
    /\ snapshot.sources[n].status \in {"warning", "critical", "error"}

\* C23. The overall_status of a snapshot is one of healthy, warning,
\* critical and error, also when a collector returned a result without a
\* status or with a status outside the four (which never becomes the
\* overall status); and it is "healthy" exactly when no source has a
\* status of rank 1 or 2.
C23_OverallInStatuses ==
    Returned =>
        /\ snapshot.overall_status \in {"healthy", "warning", "critical", "error"}
        /\ snapshot.overall_status = "healthy" <=> (\A n \in SourceIds : ~Degrades(n))

\* collect_all has returned a healthy snapshot with a source whose status
\* is outside the four and a source without a status.
C23_Witness ==
    /\ Returned
    /\ Get(snapshot.sources["jira"], "status", PyNone) = "degraded"
    /\ "status" \notin DOMAIN snapshot.sources["shell"]
    /\ snapshot.overall_status = "healthy"

\* C24. Source identity: in the snapshot collect_all returns, the "source"
\* field of the result stored under key k of sources is k, for each of the
\* four source ids, for a result the collector returned as for one that
\* collect_all synthesized.
C24_SourceIdentity ==
    Returned =>
        \A k \in SourceIds : snapshot.sources[k].source = k

====
